---- MODULE Spec2Model ----
(***************************************************************************)
(* A model of the treegro population core: the exact cohort pipe           *)
(* (GroundTruthStatePipe), the two-moment pipe (GaussianStatePipe), the    *)
(* parameter vector (SpecificParameterVector) and the life-cycle machine   *)
(* (PlantStateMachine).                                                    *)
(*                                                                         *)
(* u32 values are naturals, and stay far below 2^32 under the bounds of    *)
(* the model, so no u32 addition overflows; a u32 subtraction that goes    *)
(* below zero is recorded as a panic.  f32 values are IEEE-754 binary32    *)
(* numbers, computed bit-exactly (round to nearest, ties to even) on       *)
(* integer mantissas.                                                      *)
(***************************************************************************)
EXTENDS Integers, Sequences, FiniteSets, TLC

(***************************************************************************)
(* f32: IEEE-754 binary32.  A value is [c, s, m, e]: class c ("fin", "inf",*)
(* "nan"), sign s (0 or 1), and for a finite value the magnitude m * 2^e   *)
(* with 2^23 <= m < 2^24 (normal), m < 2^23 and e = -149 (subnormal), or   *)
(* m = 0 and e = 0 (zero).                                                 *)
(***************************************************************************)
F32(c, s, m, e) ==
    [c |-> c, s |-> s, m |-> m, e |-> e]

F32_NAN ==
    F32("nan", 0, 0, 0)

F32_INF(s) ==
    F32("inf", s, 0, 0)

F32_ZERO(s) ==
    F32("fin", s, 0, 0)

RECURSIVE BitLen(_)
BitLen(n) ==
    IF n = 0 THEN 0 ELSE 1 + BitLen(n \div 2)

\* f32_pack, once the mantissa is split at the rounding position into the
\* quotient q and the remainder r of sh bits.
f32_pack_round(s, E, sticky, sh, q, r) ==
    LET up == r > 2^(sh - 1) \/ (r = 2^(sh - 1) /\ (sticky \/ q % 2 = 1))
        q2 == IF up THEN q + 1 ELSE q
    IN  IF q2 = 0 THEN F32_ZERO(s)
        ELSE IF q2 = 16777216 THEN
            IF E + sh + 1 > 104 THEN F32_INF(s)
            ELSE F32("fin", s, 8388608, E + sh + 1)
        ELSE IF E + sh > 104 THEN F32_INF(s)
        ELSE F32("fin", s, q2, E + sh)

\* f32_pack, once the number sh of bits to drop is known (a negative sh
\* shifts the mantissa up; L is the bit length of M).
f32_pack_shift(s, M, E, sticky, L, sh) ==
    IF sh <= 0 THEN
        IF E + sh > 104 THEN F32_INF(s)
        ELSE F32("fin", s, M * 2^(-sh), E + sh)
    ELSE IF sh > L THEN F32_ZERO(s)
    ELSE f32_pack_round(s, E, sticky, sh, M \div 2^sh, M % 2^sh)

\* f32_pack for M > 0 of bit length L: 24 bits are kept, fewer below the
\* smallest normal exponent.
f32_pack_len(s, M, E, sticky, L) ==
    f32_pack_shift(s, M, E, sticky, L,
                   IF E + (L - 24) < -149 THEN -149 - E ELSE L - 24)

\* The f32 nearest to (-1)^s * (M + t) * 2^E, where 0 < t < 1 if sticky and
\* t = 0 otherwise: round to nearest, ties to even, gradual underflow,
\* overflow to infinity.
f32_pack(s, M, E, sticky) ==
    IF M = 0 THEN F32_ZERO(s) ELSE f32_pack_len(s, M, E, sticky, BitLen(M))

\* A finite non-zero value with its mantissa shifted up to 24 bits.
f32_norm(x) ==
    [m |-> x.m * 2^(24 - BitLen(x.m)), e |-> x.e - (24 - BitLen(x.m))]

f32_is_zero(x) ==
    x.c = "fin" /\ x.m = 0

f32_neg(x) ==
    IF x.c = "nan" THEN x ELSE F32(x.c, 1 - x.s, x.m, x.e)

\* The product of two normalised magnitudes, from 12-bit limbs.
f32_mul_norm(s, na, nb) ==
    LET a1    == na.m \div 4096
        a0    == na.m % 4096
        b1    == nb.m \div 4096
        b0    == nb.m % 4096
        cross == a1 * b0 + a0 * b1
        low   == a0 * b0 + (cross % 4096) * 4096
        high  == a1 * b1 + (cross \div 4096) + (low \div 16777216)
    IN  f32_pack(s, high * 16 + ((low % 16777216) \div 1048576),
                 na.e + nb.e + 20, (low % 1048576) # 0)

\* a * b
f32_mul(a, b) ==
    IF a.c = "nan" \/ b.c = "nan" THEN F32_NAN
    ELSE IF a.c = "inf" \/ b.c = "inf" THEN
        IF f32_is_zero(a) \/ f32_is_zero(b) THEN F32_NAN
        ELSE F32_INF((a.s + b.s) % 2)
    ELSE IF a.m = 0 \/ b.m = 0 THEN F32_ZERO((a.s + b.s) % 2)
    ELSE f32_mul_norm((a.s + b.s) % 2, f32_norm(a), f32_norm(b))

\* The quotient bits of rem / d, one bit per step: <<quotient, remainder>>.
RECURSIVE LongDiv(_, _, _, _)
LongDiv(q, rem, d, n) ==
    IF n = 0 THEN <<q, rem>>
    ELSE IF 2 * rem >= d THEN LongDiv(2 * q + 1, 2 * rem - d, d, n - 1)
    ELSE LongDiv(2 * q, 2 * rem, d, n - 1)

\* The quotient of two normalised magnitudes, to 26 bits past the point.
f32_div_norm(s, na, nb) ==
    LET qr == LongDiv(na.m \div nb.m, na.m % nb.m, nb.m, 26)
    IN  f32_pack(s, qr[1], na.e - nb.e - 26, qr[2] # 0)

\* a / b
f32_div(a, b) ==
    IF a.c = "nan" \/ b.c = "nan" THEN F32_NAN
    ELSE IF a.c = "inf" THEN
        IF b.c = "inf" THEN F32_NAN ELSE F32_INF((a.s + b.s) % 2)
    ELSE IF b.c = "inf" THEN F32_ZERO((a.s + b.s) % 2)
    ELSE IF b.m = 0 THEN
        IF a.m = 0 THEN F32_NAN ELSE F32_INF((a.s + b.s) % 2)
    ELSE IF a.m = 0 THEN F32_ZERO((a.s + b.s) % 2)
    ELSE f32_div_norm((a.s + b.s) % 2, f32_norm(a), f32_norm(b))

\* The sum of two normalised magnitudes with signs sa and sb: the smaller
\* is shifted down to the exponent of the larger, three guard bits kept.
f32_add_norm(sa, sb, na, nb) ==
    LET aBig   == na.e > nb.e \/ (na.e = nb.e /\ na.m >= nb.m)
        him    == IF aBig THEN na.m ELSE nb.m
        hie    == IF aBig THEN na.e ELSE nb.e
        lom    == IF aBig THEN nb.m ELSE na.m
        d      == IF aBig THEN na.e - nb.e ELSE nb.e - na.e
        hs     == IF aBig THEN sa ELSE sb
        B      == IF d >= 28 THEN 0 ELSE (lom * 8) \div 2^d
        sticky == IF d >= 28 THEN TRUE ELSE ((lom * 8) % 2^d) # 0
    IN  IF sa = sb THEN f32_pack(hs, him * 8 + B, hie - 3, sticky)
        ELSE IF him * 8 = B /\ ~sticky THEN F32_ZERO(0)
        ELSE IF sticky THEN f32_pack(hs, him * 8 - B - 1, hie - 3, TRUE)
        ELSE f32_pack(hs, him * 8 - B, hie - 3, FALSE)

\* a + b
f32_add(a, b) ==
    IF a.c = "nan" \/ b.c = "nan" THEN F32_NAN
    ELSE IF a.c = "inf" THEN
        IF b.c = "inf" /\ b.s # a.s THEN F32_NAN ELSE a
    ELSE IF b.c = "inf" THEN b
    ELSE IF a.m = 0 /\ b.m = 0 THEN
        F32_ZERO(IF a.s = 1 /\ b.s = 1 THEN 1 ELSE 0)
    ELSE IF a.m = 0 THEN b
    ELSE IF b.m = 0 THEN a
    ELSE f32_add_norm(a.s, b.s, f32_norm(a), f32_norm(b))

\* a - b
f32_sub(a, b) ==
    f32_add(a, f32_neg(b))

\* d < 0, for a d that is not NaN
f32_is_negative(d) ==
    d.c # "nan" /\ d.s = 1 /\ (d.c = "inf" \/ d.m # 0)

\* a < b (false when either is NaN)
f32_lt(a, b) ==
    IF a.c = "nan" \/ b.c = "nan" THEN FALSE
    ELSE f32_is_negative(f32_sub(a, b))

\* a >= b (false when either is NaN)
f32_ge(a, b) ==
    IF a.c = "nan" \/ b.c = "nan" THEN FALSE
    ELSE ~f32_lt(a, b)

\* The digit recurrence of the square root: n more result bits of
\* sqrt(R), where the bits of R still to bring down are those of `rest`
\* (pairs pairs of them, from the top) followed by zeros.
RECURSIVE SqrtBits(_, _, _, _, _)
SqrtBits(root, rem, rest, pairs, n) ==
    IF n = 0 THEN <<root, rem>>
    ELSE IF rem * 4 + (IF pairs = 0 THEN 0 ELSE (rest \div 4^(pairs - 1)) % 4)
            >= root * 4 + 1
    THEN SqrtBits(root * 2 + 1,
                  rem * 4 + (IF pairs = 0 THEN 0
                             ELSE (rest \div 4^(pairs - 1)) % 4)
                      - (root * 4 + 1),
                  rest, IF pairs = 0 THEN 0 ELSE pairs - 1, n - 1)
    ELSE SqrtBits(root * 2,
                  rem * 4 + (IF pairs = 0 THEN 0
                             ELSE (rest \div 4^(pairs - 1)) % 4),
                  rest, IF pairs = 0 THEN 0 ELSE pairs - 1, n - 1)

\* The square root of the normalised magnitude nx: the exponent is made
\* even, and 26 result bits are computed (13 pairs of bits of the mantissa,
\* then 13 pairs of zeros).
f32_sqrt_norm(nx) ==
    LET odd == nx.e % 2 # 0
        rr  == SqrtBits(0, 0, IF odd THEN nx.m * 2 ELSE nx.m, 13, 26)
    IN  f32_pack(0, rr[1], ((IF odd THEN nx.e - 1 ELSE nx.e) \div 2) - 13,
                 rr[2] # 0)

\* x.sqrt()
f32_sqrt(x) ==
    IF x.c = "nan" THEN F32_NAN
    ELSE IF f32_is_zero(x) THEN x
    ELSE IF x.s = 1 THEN F32_NAN
    ELSE IF x.c = "inf" THEN x
    ELSE f32_sqrt_norm(f32_norm(x))

\* n as f32, for a u32 n
u32_as_f32(n) ==
    f32_pack(0, n, 0, FALSE)

\* (mutant: NaN is cast to 1)
f32_as_u32_nan_one(x) ==
    IF x.c = "nan" THEN 1
    ELSE IF x.s = 1 THEN 0
    ELSE IF x.c = "inf" THEN 2^32 - 1
    ELSE IF x.e >= 0 THEN x.m * 2^x.e
    ELSE IF -x.e >= 24 THEN 0
    ELSE x.m \div 2^(-x.e)

\* x as u32: saturating, NaN to 0, the fraction dropped.  A result of 2^31
\* or more is outside the integers of the model and evaluates to no value.
f32_as_u32(x) ==
    IF x.c = "nan" THEN 0
    ELSE IF x.s = 1 THEN 0
    ELSE IF x.c = "inf" THEN 2^32 - 1
    ELSE IF x.e >= 0 THEN x.m * 2^x.e
    ELSE IF -x.e >= 24 THEN 0
    ELSE x.m \div 2^(-x.e)

\* x.trunc()
f32_trunc(x) ==
    IF x.c # "fin" \/ x.e >= 0 THEN x
    ELSE IF -x.e >= 24 THEN F32_ZERO(x.s)
    ELSE f32_pack(x.s, x.m \div 2^(-x.e), 0, FALSE)

\* x.round(): to the nearest integer, halves away from zero
f32_round(x) ==
    IF x.c # "fin" \/ x.e >= 0 THEN x
    ELSE IF -x.e >= 25 THEN F32_ZERO(x.s)
    ELSE
        LET n == x.m \div 2^(-x.e)
            r == x.m % 2^(-x.e)
        IN  f32_pack(x.s, IF 2 * r >= 2^(-x.e) THEN n + 1 ELSE n, 0, FALSE)

\* The f32 literal num/den (num and den below 2^24, so the quotient is the
\* correctly rounded literal).
f32_lit(num, den) ==
    f32_div(u32_as_f32(num), u32_as_f32(den))

F32_ONE ==
    u32_as_f32(1)

(***************************************************************************)
(* Bounds of the model.                                                    *)
(***************************************************************************)
MaxPeriod == 3

MaxGain == 2

MaxDen == 3

MaxOps == 6

MaxSeeds == 2

MaxLife == 2

MaxTicks == 6

\* The end-to-end run: the seeds inserted, the steps taken, and the multiple
\* of the seeds the population is compared with
E2ESeeds == 100

E2ESteps == 200

E2EPopFactor == 10

Periods ==
    0..MaxPeriod

Gains ==
    0..MaxGain

\* The fractions n/d of [0, 1] with d <= MaxDen, as f32 values.
Fractions ==
    {f32_lit(x[1], x[2]) :
        x \in {y \in (0..MaxDen) \X (1..MaxDen) : y[1] <= y[2]}}

(***************************************************************************)
(* GroundTruthStatePipe: age_list is a sequence of u32 counts, the oldest  *)
(* cohort first (index 1 here is index 0 of the VecDeque).                 *)
(***************************************************************************)
RECURSIVE SumSeq(_)
SumSeq(s) ==
    IF s = <<>> THEN 0 ELSE Head(s) + SumSeq(Tail(s))

\* loss(): self.age_list[0]; indexing an empty deque panics
GT_loss_panics(al) ==
    al = <<>>

\* (mutant: reads the youngest bucket instead of the oldest)
GT_loss_youngest(al) ==
    al[Len(al)]

GT_loss(al) ==
    al[1]

\* (mutant: the sum skips the oldest bucket)
GT_pop_skip_oldest(al) ==
    IF al = <<>> THEN 0 ELSE SumSeq(Tail(al))

\* pop(): self.age_list.iter().sum()
GT_pop(al) ==
    SumSeq(al)

\* (mutant: pop_back() in place of pop_front())
GT_step_pop_back(al, gain) ==
    IF al = <<>> THEN <<gain>> ELSE Append(SubSeq(al, 1, Len(al) - 1), gain)

\* (mutant: the oldest bucket is not popped)
GT_step_keep_oldest(al, gain) ==
    Append(al, gain)

\* step(gain): pop_front() (None on an empty deque), then push_back(gain)
GT_step(al, gain) ==
    IF al = <<>> THEN <<gain>> ELSE Append(Tail(al), gain)

\* set_period(period) panics at age_list[0] += pop_sum when every bucket has
\* been popped
GT_set_period_panics(al, period) ==
    period < Len(al) /\ period = 0

\* (mutant: the popped buckets are dropped, not merged)
GT_set_period_no_merge(al, period) ==
    IF period < Len(al) THEN SubSeq(al, Len(al) - period + 1, Len(al))
    ELSE IF period > Len(al) THEN
        [i \in 1..(period - Len(al)) |-> 0] \o al
    ELSE al

\* (mutant: the list is sized to one bucket short of the period)
GT_set_period_one_short(al, period) ==
    IF period - 1 > Len(al) THEN [i \in 1..(period - 1 - Len(al)) |-> 0] \o al
    ELSE al

\* (mutant: the popped buckets are added to the youngest bucket)
GT_set_period_merge_youngest(al, period) ==
    IF period < Len(al) THEN
        [SubSeq(al, Len(al) - period + 1, Len(al)) EXCEPT
            ![period] = @ + SumSeq(SubSeq(al, 1, Len(al) - period))]
    ELSE IF period > Len(al) THEN
        [i \in 1..(period - Len(al)) |-> 0] \o al
    ELSE al

\* (mutant: the new buckets are pushed at the back)
GT_set_period_pad_back(al, period) ==
    IF period < Len(al) THEN
        [SubSeq(al, Len(al) - period + 1, Len(al)) EXCEPT
            ![1] = @ + SumSeq(SubSeq(al, 1, Len(al) - period))]
    ELSE IF period > Len(al) THEN
        al \o [i \in 1..(period - Len(al)) |-> 0]
    ELSE al

\* set_period(period)
GT_set_period(al, period) ==
    IF period < Len(al) THEN
        LET n       == Len(al) - period
            pop_sum == SumSeq(SubSeq(al, 1, n))
            rest    == SubSeq(al, n + 1, Len(al))
        IN  [rest EXCEPT ![1] = @ + pop_sum]
    ELSE IF period > Len(al) THEN
        [i \in 1..(period - Len(al)) |-> 0] \o al
    ELSE al

\* one bucket of cull_pop: (count as f32 * (1.0 - remove_percent)) as u32
cull_count(count, remove_percent) ==
    f32_as_u32(f32_mul(u32_as_f32(count), f32_sub(F32_ONE, remove_percent)))

\* cull_pop(remove_percent)
GT_cull_pop(al, remove_percent) ==
    [i \in DOMAIN al |-> cull_count(al[i], remove_percent)]

(***************************************************************************)
(* GaussianStatePipe: [period, pop, age_avg, age_var], period and pop u32, *)
(* age_avg and age_var f32.  A u32 subtraction below zero is an overflow   *)
(* panic (the *_panics predicates).                                        *)
(***************************************************************************)
F32_EPSILON ==
    F32("fin", 0, 8388608, -46)

GaussianDefault ==
    [period |-> 0, pop |-> 0, age_avg |-> F32_ZERO(0), age_var |-> F32_ZERO(0)]

\* x * x * x * (x * (x * 6.0 - 15.0) + 10.0)
smoothstep(x) ==
    f32_mul(f32_mul(f32_mul(x, x), x),
            f32_add(f32_mul(x, f32_sub(f32_mul(x, u32_as_f32(6)),
                                       u32_as_f32(15))),
                    u32_as_f32(10)))

\* approx_gauss(mean, std, val)
approx_gauss(mean, std, val) ==
    smoothstep(f32_add(f32_div(f32_sub(val, mean),
                               f32_mul(f32_lit(51, 10), std)),
                       f32_lit(1, 2)))

\* loss_percent()
G_loss_percent(g) ==
    IF f32_lt(g.age_var, F32_EPSILON) THEN
        IF f32_ge(g.age_avg, u32_as_f32(g.period)) THEN F32_ONE ELSE F32_ZERO(0)
    ELSE
        f32_sub(F32_ONE, approx_gauss(g.age_avg, f32_sqrt(g.age_var),
                                      u32_as_f32(g.period)))

\* loss(): (self.pop as f32 * self.loss_percent()).round() as u32
G_loss(g) ==
    f32_as_u32(f32_round(f32_mul(u32_as_f32(g.pop), G_loss_percent(g))))

\* pop()
G_pop(g) ==
    g.pop

\* retain_age_avg(), given the value loss of self.loss()
retain_age_avg_of(g, loss) ==
    IF g.pop - loss = 0 THEN F32_ZERO(0)
    ELSE f32_div(f32_sub(f32_mul(u32_as_f32(g.pop), g.age_avg),
                         u32_as_f32(loss * g.period)),
                 u32_as_f32(g.pop - loss))

\* retain_age_avg(), called by step where self.pop - self.loss() has not
\* overflowed
retain_age_avg(g) ==
    retain_age_avg_of(g, G_loss(g))

\* x.powf(2.0)
f32_powf2(x) ==
    f32_mul(x, x)

\* step(gain) panics: self.pop + gain - self.loss(), or self.pop -
\* self.loss(), goes below zero
G_step_panics(g, gain) ==
    G_loss(g) > g.pop + gain \/ G_loss(g) > g.pop

\* step(gain), from next_age_avg on; loss is self.loss() and next_pop is
\* self.pop + gain - self.loss()
G_step_moments(g, gain, loss, next_pop, next_age_avg) ==
    LET loss_var_delta    ==
            f32_mul(u32_as_f32(loss),
                    f32_powf2(f32_sub(u32_as_f32(g.period), g.age_avg)))
        avg_sft_var_delta ==
            f32_mul(f32_mul(u32_as_f32(g.pop - loss),
                            f32_sub(f32_sub(next_age_avg, F32_ONE), g.age_avg)),
                    f32_sub(f32_add(f32_sub(next_age_avg, F32_ONE), g.age_avg),
                            f32_mul(u32_as_f32(2), retain_age_avg(g))))
        gain_var_delta    == f32_mul(u32_as_f32(gain), f32_powf2(next_age_avg))
        next_age_var      ==
            IF next_pop = 0 THEN F32_ZERO(0)
            ELSE f32_add(g.age_var,
                         f32_div(f32_sub(f32_add(gain_var_delta,
                                                 avg_sft_var_delta),
                                         loss_var_delta),
                                 u32_as_f32(next_pop)))
    IN  [period |-> g.period, pop |-> next_pop,
         age_avg |-> next_age_avg, age_var |-> next_age_var]

\* (mutant: the retained individuals do not age)
G_step_loss_no_aging(g, gain, loss) ==
    G_step_moments(g, gain, loss, g.pop + gain - loss,
        IF g.pop + gain - loss = 0 THEN F32_ZERO(0)
        ELSE f32_div(f32_mul(u32_as_f32(g.pop - loss), g.age_avg),
                     u32_as_f32(g.pop + gain - loss)))

\* step(gain), from next_pop on; loss is self.loss()
G_step_loss(g, gain, loss) ==
    G_step_moments(g, gain, loss, g.pop + gain - loss,
        IF g.pop + gain - loss = 0 THEN F32_ZERO(0)
        ELSE f32_div(f32_mul(u32_as_f32(g.pop - loss),
                             f32_add(g.age_avg, F32_ONE)),
                     u32_as_f32(g.pop + gain - loss)))

\* step(gain)
G_step(g, gain) ==
    G_step_loss(g, gain, G_loss(g))

\* set_period(period) panics: period - 1 below zero
G_set_period_panics(g, period) ==
    period = 0

\* (mutant: the period is stored as given)
G_set_period_as_given(g, period) ==
    [g EXCEPT !.period = period]

\* set_period(period)
G_set_period(g, period) ==
    [g EXCEPT !.period = period - 1]

\* cull_pop(remove_percent), given new_pop
G_cull_pop_to(g, new_pop) ==
    IF new_pop = 0 THEN
        [g EXCEPT !.age_avg = F32_ZERO(0), !.pop = new_pop]
    ELSE
        [g EXCEPT !.age_var = f32_div(f32_mul(g.age_var, u32_as_f32(g.pop)),
                                      u32_as_f32(new_pop)),
                  !.pop = new_pop]

\* cull_pop(remove_percent)
G_cull_pop(g, remove_percent) ==
    G_cull_pop_to(g, cull_count(g.pop, remove_percent))

(***************************************************************************)
(* trait StatePipe, over a pipe [kind, age_list, g]: age_list is the state *)
(* of a GroundTruthStatePipe and g the state of a GaussianStatePipe.       *)
(***************************************************************************)
PipeKinds ==
    {"GroundTruthStatePipe", "GaussianStatePipe"}

\* T::default()
NewPipe(kind) ==
    [kind |-> kind, age_list |-> <<>>, g |-> GaussianDefault]

SP_loss_panics(p) ==
    p.kind = "GroundTruthStatePipe" /\ GT_loss_panics(p.age_list)

SP_loss(p) ==
    IF p.kind = "GroundTruthStatePipe" THEN GT_loss(p.age_list) ELSE G_loss(p.g)

SP_pop(p) ==
    IF p.kind = "GroundTruthStatePipe" THEN GT_pop(p.age_list) ELSE G_pop(p.g)

SP_step_panics(p, gain) ==
    p.kind = "GaussianStatePipe" /\ G_step_panics(p.g, gain)

SP_step(p, gain) ==
    IF p.kind = "GroundTruthStatePipe"
    THEN [p EXCEPT !.age_list = GT_step(p.age_list, gain)]
    ELSE [p EXCEPT !.g = G_step(p.g, gain)]

SP_set_period_panics(p, period) ==
    IF p.kind = "GroundTruthStatePipe"
    THEN GT_set_period_panics(p.age_list, period)
    ELSE G_set_period_panics(p.g, period)

SP_set_period(p, period) ==
    IF p.kind = "GroundTruthStatePipe"
    THEN [p EXCEPT !.age_list = GT_set_period(p.age_list, period)]
    ELSE [p EXCEPT !.g = G_set_period(p.g, period)]

(***************************************************************************)
(* SpecificParameterVector: columns is the array of TotalParams f32        *)
(* values, column i of the source at index i + 1.                          *)
(***************************************************************************)
SeedMaturationPeriod == 0

SeedGerminationConditions == 1

SeedGerminationPeriod == 2

PlantMaturationPeriod == 3

FloweringConditions == 4

FloweringPeriod == 5

FloweringRecoveryPeriod == 6

FloweringSuccessRatio == 7

DispersionRate == 8

DispersionPeriod == 9

DispersionRecoveryPeriod == 10

MaturePlantLifePeriod == 11

MinimumSurvivalConditions == 12

SnagDecompositionPeriod == 13

TotalParams == 14

\* SpecificParameterVector::default()
DefaultColumns ==
    [i \in 1..TotalParams |-> F32_ZERO(0)]

\* from_raw(columns)
from_raw(columns) ==
    columns

\* float_param(param_type) panics: the index assertion
float_param_panics(columns, param_type) ==
    ~(param_type < Len(columns))

\* float_param(param_type)
float_param(columns, param_type) ==
    columns[param_type + 1]

\* (mutant: only the index is asserted, a negative value is cast)
uint_param_clamps(columns, param_type) ==
    ~(param_type < Len(columns))

\* uint_param(param_type) panics: the index assertion, or the assertion
\* self.columns[param_type as usize] >= 0.0
uint_param_panics(columns, param_type) ==
    \/ ~(param_type < Len(columns))
    \/ ~f32_ge(columns[param_type + 1], F32_ZERO(0))

\* uint_param(param_type): self.columns[param_type as usize].trunc() as u32
uint_param(columns, param_type) ==
    f32_as_u32(f32_trunc(columns[param_type + 1]))

\* (mutant: the germination period is left out)
total_maturation_period_two_stages(columns) ==
    uint_param(columns, SeedMaturationPeriod)
    + uint_param(columns, PlantMaturationPeriod)

\* total_maturation_period()
total_maturation_period(columns) ==
    uint_param(columns, SeedMaturationPeriod)
    + uint_param(columns, SeedGerminationPeriod)
    + uint_param(columns, PlantMaturationPeriod)

\* The values n/d and -(n/d) with n <= MaxPeriod and d <= MaxDen (-0.0 among
\* them), and NaN.
ParamValues ==
    {f32_lit(x[1], x[2]) : x \in (0..MaxPeriod) \X (1..MaxDen)}
    \cup {f32_neg(f32_lit(x[1], x[2])) : x \in (0..MaxPeriod) \X (1..MaxDen)}
    \cup {F32_NAN}

\* world.rs: pub const NUM_RESOURCES
NUM_RESOURCES == 4

\* ParameterMatrix::default(): every row has zero weights and offset 1.0
DefaultMatrix ==
    [p \in 1..TotalParams |->
        [i \in 1..(NUM_RESOURCES + 1) |->
            IF i = NUM_RESOURCES + 1 THEN F32_ONE ELSE F32_ZERO(0)]]

\* set_offset(param, value): self.rows[param as usize][NUM_RESOURCES] = value
set_offset(rows, param, value) ==
    [rows EXCEPT ![param + 1][NUM_RESOURCES + 1] = value]

\* ResourceVector::default(): zero resources and a trailing 1.0
DefaultResources ==
    [i \in 1..(NUM_RESOURCES + 1) |->
        IF i = NUM_RESOURCES + 1 THEN F32_ONE ELSE F32_ZERO(0)]

\* (0..n).map(|i| row[i] * columns[i]).sum(): the products are added in
\* index order to acc, which starts at the zero of the float sum
RECURSIVE row_sum(_, _, _, _, _)
row_sum(row, columns, i, n, acc) ==
    IF i > n THEN acc
    ELSE row_sum(row, columns, i + 1, n,
                 f32_add(acc, f32_mul(row[i], columns[i])))

\* (mutant: the offset column is left out of the sum)
mul_weights_only(rows, columns, zero) ==
    [p \in 1..TotalParams |->
        row_sum(rows[p], columns, 1, NUM_RESOURCES, zero)]

\* &ParameterMatrix * &ResourceVector: each row's sum over all
\* NUM_RESOURCES + 1 columns, written into a default parameter vector.  zero
\* is the value an empty float sum starts from: 0.0 or -0.0, depending on the
\* standard library the program is built with.
mul(rows, columns, zero) ==
    [p \in 1..TotalParams |->
        row_sum(rows[p], columns, 1, NUM_RESOURCES + 1, zero)]

\* The weights a matrix row is given: 0.0, 0.5 and -1.0
ProjWeights ==
    {F32_ZERO(0), f32_lit(1, 2), f32_neg(F32_ONE)}

\* The offsets a matrix row is given: 0.0, 1.0 and -1.0
ProjOffsets ==
    {F32_ZERO(0), F32_ONE, f32_neg(F32_ONE)}

\* The levels of one resource: none (0.0), half (0.5) and unlimited (1.0)
ProjLevels ==
    {F32_ZERO(0), f32_lit(1, 2), F32_ONE}

\* The weight rows: one weight for the outer resources and one for the inner
ProjWeightRows ==
    {<<w[1], w[2], w[2], w[1]>> : w \in ProjWeights \X ProjWeights}

\* The resource vectors: NUM_RESOURCES levels, alternating, and the
\* trailing 1.0
ProjResources ==
    {<<r[1], r[2], r[1], r[2], F32_ONE>> : r \in ProjLevels \X ProjLevels}

(***************************************************************************)
(* PlantStateMachine<GroundTruthStatePipe>: a record of nine age lists and *)
(* two counters.  A call that panics leaves the machine as it was when the *)
(* panic was raised.                                                       *)
(***************************************************************************)
\* PlantStateMachine::default()
NewMachine ==
    [immature_seeds |-> <<>>, mature_seeds |-> <<>>, dormant_seeds |-> 0,
     immature_plants |-> <<>>, mature_plants |-> <<>>,
     ready_to_flower_plants |-> 0, flowering_plants |-> <<>>,
     flower_recovering_plants |-> <<>>, dispersing_plants |-> <<>>,
     disperse_recovering_plants |-> <<>>, snags |-> <<>>]

\* The pipes update_states re-periods, in its order, each with the parameter
\* that holds its period.
StatePeriods ==
    << <<"immature_seeds", SeedMaturationPeriod>>,
       <<"mature_seeds", SeedGerminationPeriod>>,
       <<"immature_plants", PlantMaturationPeriod>>,
       <<"mature_plants", MaturePlantLifePeriod>>,
       <<"flowering_plants", FloweringPeriod>>,
       <<"flower_recovering_plants", FloweringRecoveryPeriod>>,
       <<"dispersing_plants", DispersionPeriod>>,
       <<"disperse_recovering_plants", DispersionRecoveryPeriod>>,
       <<"snags", SnagDecompositionPeriod>> >>

\* update_states(param_vec) from its k-th set_period on: [m, panicked].  A
\* set_period that panics has popped every bucket of its pipe.
RECURSIVE update_states_from(_, _, _)
update_states_from(m, columns, k) ==
    IF k > Len(StatePeriods) THEN [m |-> m, panicked |-> FALSE]
    ELSE IF uint_param_panics(columns, StatePeriods[k][2]) THEN
        [m |-> m, panicked |-> TRUE]
    ELSE IF GT_set_period_panics(m[StatePeriods[k][1]],
                                 uint_param(columns, StatePeriods[k][2])) THEN
        [m |-> [m EXCEPT ![StatePeriods[k][1]] = <<>>], panicked |-> TRUE]
    ELSE
        update_states_from(
            [m EXCEPT ![StatePeriods[k][1]] =
                GT_set_period(@, uint_param(columns, StatePeriods[k][2]))],
            columns, k + 1)

\* update_states(param_vec)
update_states(m, columns) ==
    update_states_from(m, columns, 1)

\* The snapshot of step panics: loss() of a pipe with no bucket
snapshot_panics(m) ==
    \/ GT_loss_panics(m.immature_seeds)
    \/ GT_loss_panics(m.mature_seeds)
    \/ GT_loss_panics(m.immature_plants)
    \/ GT_loss_panics(m.mature_plants)
    \/ GT_loss_panics(m.flowering_plants)
    \/ GT_loss_panics(m.dispersing_plants)
    \/ GT_loss_panics(m.flower_recovering_plants)
    \/ GT_loss_panics(m.disperse_recovering_plants)

\* (mutant: every dispersing plant disperses a seed, the rate is not applied)
snapshot_rate_one(m, columns) ==
    [matured_seeds         |-> GT_loss(m.immature_seeds),
     germinated_seeds      |-> GT_loss(m.mature_seeds),
     matured_plants        |-> GT_loss(m.immature_plants),
     dead_plants           |-> GT_loss(m.mature_plants),
     flowered_plants       |-> GT_loss(m.flowering_plants),
     dispersed_plants      |-> GT_loss(m.dispersing_plants),
     total_seeds_dispersed |-> GT_pop(m.dispersing_plants),
     recovered_plants      |->
         GT_loss(m.flower_recovering_plants)
             + GT_loss(m.disperse_recovering_plants)]

\* The values step reads before it culls or steps a pipe
snapshot(m, columns) ==
    [matured_seeds         |-> GT_loss(m.immature_seeds),
     germinated_seeds      |-> GT_loss(m.mature_seeds),
     matured_plants        |-> GT_loss(m.immature_plants),
     dead_plants           |-> GT_loss(m.mature_plants),
     flowered_plants       |-> GT_loss(m.flowering_plants),
     dispersed_plants      |-> GT_loss(m.dispersing_plants),
     total_seeds_dispersed |->
         f32_as_u32(f32_mul(u32_as_f32(GT_pop(m.dispersing_plants)),
                            float_param(columns, DispersionRate))),
     recovered_plants      |->
         GT_loss(m.flower_recovering_plants)
             + GT_loss(m.disperse_recovering_plants)]

\* The snapshot kept of a step that panicked before it took one
NoSnapshot ==
    [matured_seeds |-> 0, germinated_seeds |-> 0, matured_plants |-> 0,
     dead_plants |-> 0, flowered_plants |-> 0, dispersed_plants |-> 0,
     total_seeds_dispersed |-> 0, recovered_plants |-> 0]

\* mature_die_percent: dead_plants as f32 / (self.mature_plants.pop() as f32)
mature_die_percent(m, s) ==
    f32_div(u32_as_f32(s.dead_plants), u32_as_f32(GT_pop(m.mature_plants)))

\* (mutant: the mature-plant pipe is culled as well)
step_mortality_cull_mature(m, s, f) ==
    [m EXCEPT !.flowering_plants = GT_cull_pop(@, f),
              !.dispersing_plants = GT_cull_pop(@, f),
              !.flower_recovering_plants = GT_cull_pop(@, f),
              !.disperse_recovering_plants = GT_cull_pop(@, f),
              !.mature_plants = GT_cull_pop(@, f),
              !.ready_to_flower_plants = cull_count(@, f),
              !.snags = GT_step(@, s.dead_plants)]

\* (mutant: the snag pipe is stepped with the plants that matured)
step_mortality_snag_matured(m, s, f) ==
    [m EXCEPT !.flowering_plants = GT_cull_pop(@, f),
              !.dispersing_plants = GT_cull_pop(@, f),
              !.flower_recovering_plants = GT_cull_pop(@, f),
              !.disperse_recovering_plants = GT_cull_pop(@, f),
              !.ready_to_flower_plants = cull_count(@, f),
              !.snags = GT_step(@, s.matured_plants)]

\* "Process mature plant mortality": the four culls, the cull of the
\* counter, and snags.step(dead_plants)
step_mortality(m, s, f) ==
    [m EXCEPT !.flowering_plants = GT_cull_pop(@, f),
              !.dispersing_plants = GT_cull_pop(@, f),
              !.flower_recovering_plants = GT_cull_pop(@, f),
              !.disperse_recovering_plants = GT_cull_pop(@, f),
              !.ready_to_flower_plants = cull_count(@, f),
              !.snags = GT_step(@, s.dead_plants)]

\* (mutant: the mature-seed pipe ages while the seeds are dormant)
step_seeds_ages_dormant(m, columns, s) ==
    IF f32_lt(float_param(columns, SeedGerminationConditions), F32_ZERO(0))
    THEN [m EXCEPT !.immature_seeds = GT_step(@, s.total_seeds_dispersed),
                   !.mature_seeds = GT_step(@, 0),
                   !.dormant_seeds = @ + s.matured_seeds]
    ELSE [m EXCEPT !.immature_seeds = GT_step(@, s.total_seeds_dispersed),
                   !.mature_seeds =
                       GT_step(@, s.matured_seeds + m.dormant_seeds),
                   !.dormant_seeds = 0]

\* "Process new seeds" and "Process ready-to-germinate seeds"
step_seeds(m, columns, s) ==
    IF f32_lt(float_param(columns, SeedGerminationConditions), F32_ZERO(0))
    THEN [m EXCEPT !.immature_seeds = GT_step(@, s.total_seeds_dispersed),
                   !.dormant_seeds = @ + s.matured_seeds]
    ELSE [m EXCEPT !.immature_seeds = GT_step(@, s.total_seeds_dispersed),
                   !.mature_seeds =
                       GT_step(@, s.matured_seeds + m.dormant_seeds),
                   !.dormant_seeds = 0]

\* (mutant: a flowering tick admits only the plants of this tick and drops
\* the plants held in the counter)
step_plants_drop_held(m, columns, s) ==
    IF f32_lt(float_param(columns, FloweringConditions), F32_ZERO(0))
    THEN [m EXCEPT !.immature_plants = GT_step(@, s.germinated_seeds),
                   !.mature_plants = GT_step(@, s.matured_plants),
                   !.ready_to_flower_plants =
                       @ + s.matured_plants + s.recovered_plants]
    ELSE [m EXCEPT !.immature_plants = GT_step(@, s.germinated_seeds),
                   !.mature_plants = GT_step(@, s.matured_plants),
                   !.flowering_plants =
                       GT_step(@, s.matured_plants + s.recovered_plants),
                   !.ready_to_flower_plants = 0]

\* "Process germinated seeds" to "Process ready-to-flower plants"
step_plants(m, columns, s) ==
    IF f32_lt(float_param(columns, FloweringConditions), F32_ZERO(0))
    THEN [m EXCEPT !.immature_plants = GT_step(@, s.germinated_seeds),
                   !.mature_plants = GT_step(@, s.matured_plants),
                   !.ready_to_flower_plants =
                       @ + s.matured_plants + s.recovered_plants]
    ELSE [m EXCEPT !.immature_plants = GT_step(@, s.germinated_seeds),
                   !.mature_plants = GT_step(@, s.matured_plants),
                   !.flowering_plants =
                       GT_step(@, m.ready_to_flower_plants + s.matured_plants
                                    + s.recovered_plants),
                   !.ready_to_flower_plants = 0]

\* flower_success_pop
flower_success_pop(columns, s) ==
    f32_as_u32(f32_mul(float_param(columns, FloweringSuccessRatio),
                       u32_as_f32(s.flowered_plants)))

\* flowered_plants - flower_success_pop goes below zero
step_flowering_panics(columns, s) ==
    flower_success_pop(columns, s) > s.flowered_plants

\* "Process flowering success"
step_dispersing(m, columns, s) ==
    [m EXCEPT !.dispersing_plants = GT_step(@, flower_success_pop(columns, s))]

\* "Process flowering failure" and "Process dispersal recovery"
step_recovering(m, columns, s) ==
    [m EXCEPT !.flower_recovering_plants =
                  GT_step(@, s.flowered_plants - flower_success_pop(columns, s)),
              !.disperse_recovering_plants = GT_step(@, s.dispersed_plants)]

\* The bucket that mature_seeds.step drops in a step with the parameter
\* vector columns, upd being the machine after update_states: none when the
\* germination conditions are negative and the pipe is not stepped
mature_seeds_dropped(upd, columns) ==
    IF f32_lt(float_param(columns, SeedGerminationConditions), F32_ZERO(0))
       \/ upd.mature_seeds = <<>>
    THEN 0
    ELSE upd.mature_seeds[1]

\* step(param_vec) after the culls.  upd is the machine after update_states,
\* s the snapshot, f the mortality fraction, culled the machine after
\* "Process mature plant mortality", removed the bucket snags.step has
\* popped.
step_culled(upd, columns, s, f, culled) ==
    [m |-> IF step_flowering_panics(columns, s)
           THEN step_dispersing(
                    step_plants(step_seeds(culled, columns, s), columns, s),
                    columns, s)
           ELSE step_recovering(
                    step_dispersing(
                        step_plants(step_seeds(culled, columns, s), columns, s),
                        columns, s),
                    columns, s),
     panicked |-> step_flowering_panics(columns, s),
     upd |-> upd, s |-> s, f |-> f, culled |-> culled,
     removed |-> IF upd.snags = <<>> THEN 0 ELSE upd.snags[1]]

\* (mutant: only snags.step(dead_plants), the culls are left out)
step_snapshot_unculled(upd, columns, s, f) ==
    step_culled(upd, columns, s, f,
                [upd EXCEPT !.snags = GT_step(@, s.dead_plants)])

\* step(param_vec) after the snapshot
step_snapshot(upd, columns, s, f) ==
    step_culled(upd, columns, s, f, step_mortality(upd, s, f))

\* step(param_vec) after update_states, whose result is u
step_updated(u, columns) ==
    IF u.panicked \/ snapshot_panics(u.m) THEN
        [m |-> u.m, panicked |-> TRUE, upd |-> u.m, s |-> NoSnapshot,
         f |-> F32_ZERO(0), culled |-> u.m, removed |-> 0]
    ELSE
        step_snapshot(u.m, columns, snapshot(u.m, columns),
                      mature_die_percent(u.m, snapshot(u.m, columns)))

\* step(param_vec): the machine m it leaves, whether it panicked, and what
\* it computed on the way (upd, s, f, culled, removed)
fsm_step(m, columns) ==
    step_updated(update_states(m, columns), columns)

\* The parameter vector of a tick: every period 1 but the mature-plant life
\* period, dispersion rate 1.0.
FsmColumns(germination, flowering, life, ratio) ==
    from_raw([i \in 1..TotalParams |->
        IF i = SeedGerminationConditions + 1 THEN germination
        ELSE IF i = FloweringConditions + 1 THEN flowering
        ELSE IF i = MaturePlantLifePeriod + 1 THEN u32_as_f32(life)
        ELSE IF i = FloweringSuccessRatio + 1 THEN ratio
        ELSE F32_ONE])

ConditionValues ==
    {f32_neg(F32_ONE), F32_ONE}

SuccessRatios ==
    {f32_lit(1, 2), F32_ONE}

FsmParamVectors ==
    {FsmColumns(x[1], x[2], x[3], x[4]) :
        x \in ConditionValues \X ConditionValues \X (1..MaxLife)
              \X SuccessRatios}

\* Parameter vectors whose mature-plant life period may be 0.0, a value that
\* uint_param returns as 0
FsmZeroVectors ==
    {FsmColumns(F32_ONE, x[1], x[2], x[3]) :
        x \in ConditionValues \X (0..MaxLife) \X SuccessRatios}

\* Parameter vectors whose snag-decomposition period, the last that
\* update_states reads, may be negative
FsmNegVectors ==
    {[FsmColumns(F32_ONE, F32_ONE, x[1], f32_lit(1, 2))
          EXCEPT ![SnagDecompositionPeriod + 1] = x[2]] :
        x \in (1..MaxLife) \X {F32_ONE, f32_neg(F32_ONE)}}

\* Parameter vectors with germination and flowering conditions of either
\* sign, mature-plant life period MaxLife and success ratio 0.5
FsmCondVectors ==
    {FsmColumns(x[1], x[2], MaxLife, f32_lit(1, 2)) :
        x \in ConditionValues \X ConditionValues}

\* The parameter vector of the end-to-end run: the periods 2, 3, 4, 20, 2,
\* 5, 2, 4 and 10, dispersal rate 0.27, success ratio 0.8, conditions 1.0
E2EColumns ==
    from_raw([i \in 1..TotalParams |->
        IF i - 1 = SeedMaturationPeriod THEN u32_as_f32(2)
        ELSE IF i - 1 = SeedGerminationPeriod THEN u32_as_f32(3)
        ELSE IF i - 1 = PlantMaturationPeriod THEN u32_as_f32(4)
        ELSE IF i - 1 = MaturePlantLifePeriod THEN u32_as_f32(20)
        ELSE IF i - 1 = FloweringPeriod THEN u32_as_f32(2)
        ELSE IF i - 1 = FloweringRecoveryPeriod THEN u32_as_f32(5)
        ELSE IF i - 1 = DispersionPeriod THEN u32_as_f32(2)
        ELSE IF i - 1 = DispersionRecoveryPeriod THEN u32_as_f32(4)
        ELSE IF i - 1 = SnagDecompositionPeriod THEN u32_as_f32(10)
        ELSE IF i - 1 = DispersionRate THEN f32_lit(27, 100)
        ELSE IF i - 1 = FloweringSuccessRatio THEN f32_lit(8, 10)
        ELSE F32_ONE])

\* The population of the stages of the life cycle
StagePop(m) ==
    GT_pop(m.immature_seeds) + GT_pop(m.mature_seeds) + m.dormant_seeds
    + GT_pop(m.immature_plants) + GT_pop(m.mature_plants) + GT_pop(m.snags)

VARIABLES age_list, op, arg, pre, fixedK, gains, losses, panicked, nops,
          gpipe, gop, garg, gpre, gpanicked, gnops,
          t_pipe, t_pc, t_period, t_amount, t_iter, t_i,
          p_columns, p_op, p_type, p_result,
          fsm, f_op, f_tick, f_admitted, f_removed, f_panicked, f_ticks,
          f_inserted, f_hist,
          q_rows, q_resources, q_result, q_op,
          tw_a, tw_b, tw_op, tw_ticks

pipeVars == <<age_list, op, arg, pre, fixedK, gains, losses, panicked, nops>>

gaussVars == <<gpipe, gop, garg, gpre, gpanicked, gnops>>

testVars == <<t_pipe, t_pc, t_period, t_amount, t_iter, t_i>>

paramVars == <<p_columns, p_op, p_type, p_result>>

fsmVars ==
    <<fsm, f_op, f_tick, f_admitted, f_removed, f_panicked, f_ticks,
      f_inserted, f_hist>>

projVars == <<q_rows, q_resources, q_result, q_op>>

twinVars == <<tw_a, tw_b, tw_op, tw_ticks>>

vars ==
    <<pipeVars, gaussVars, testVars, paramVars, fsmVars, projVars, twinVars>>

(***************************************************************************)
(* One exact pipe under any interleaving of set_period, step and cull_pop. *)
(* op, arg and pre record the last call, its argument and the age_list it  *)
(* was applied to; panicked is set by a call that panics.  fixedK is K     *)
(* while the pipe, set to period K when empty, has only been stepped since *)
(* (0 otherwise); gains and losses then list the gain of every step and    *)
(* the loss() read just before it.                                         *)
(***************************************************************************)
PipeInit ==
    /\ age_list = <<>>
    /\ op = "new"
    /\ arg = 0
    /\ pre = <<>>
    /\ fixedK = 0
    /\ gains = <<>>
    /\ losses = <<>>
    /\ panicked = FALSE
    /\ nops = 0

PipeSetPeriod(period) ==
    /\ nops < MaxOps
    /\ ~panicked
    /\ op' = "set_period"
    /\ arg' = period
    /\ pre' = age_list
    /\ gains' = <<>>
    /\ losses' = <<>>
    /\ nops' = nops + 1
    /\ IF GT_set_period_panics(age_list, period)
       THEN panicked' = TRUE /\ age_list' = age_list /\ fixedK' = 0
       ELSE /\ panicked' = FALSE
            /\ age_list' = GT_set_period(age_list, period)
            /\ fixedK' = IF op = "new" THEN period ELSE 0
    /\ UNCHANGED <<gaussVars, testVars, paramVars, fsmVars, projVars, twinVars>>

PipeStep(gain) ==
    /\ nops < MaxOps
    /\ ~panicked
    /\ age_list' = GT_step(age_list, gain)
    /\ op' = "step"
    /\ arg' = gain
    /\ pre' = age_list
    /\ fixedK' = fixedK
    /\ gains' = IF fixedK > 0 THEN Append(gains, gain) ELSE <<>>
    /\ losses' = IF fixedK > 0 THEN Append(losses, GT_loss(age_list)) ELSE <<>>
    /\ panicked' = FALSE
    /\ nops' = nops + 1
    /\ UNCHANGED <<gaussVars, testVars, paramVars, fsmVars, projVars, twinVars>>

PipeCull(remove_percent) ==
    /\ nops < MaxOps
    /\ ~panicked
    /\ age_list' = GT_cull_pop(age_list, remove_percent)
    /\ op' = "cull_pop"
    /\ arg' = remove_percent
    /\ pre' = age_list
    /\ fixedK' = 0
    /\ gains' = <<>>
    /\ losses' = <<>>
    /\ panicked' = FALSE
    /\ nops' = nops + 1
    /\ UNCHANGED <<gaussVars, testVars, paramVars, fsmVars, projVars, twinVars>>

(***************************************************************************)
(* One approximate pipe under any interleaving of set_period, step and     *)
(* cull_pop.  gop, garg and gpre record the last call, its argument and    *)
(* the pipe it was applied to; gpanicked is set by a call that panics.     *)
(***************************************************************************)
GaussInit ==
    /\ gpipe = GaussianDefault
    /\ gop = "new"
    /\ garg = 0
    /\ gpre = GaussianDefault
    /\ gpanicked = FALSE
    /\ gnops = 0

GaussSetPeriod(period) ==
    /\ gnops < MaxOps
    /\ ~gpanicked
    /\ gop' = "set_period"
    /\ garg' = period
    /\ gpre' = gpipe
    /\ gnops' = gnops + 1
    /\ IF G_set_period_panics(gpipe, period)
       THEN gpanicked' = TRUE /\ gpipe' = gpipe
       ELSE gpanicked' = FALSE /\ gpipe' = G_set_period(gpipe, period)
    /\ UNCHANGED <<pipeVars, testVars, paramVars, fsmVars, projVars, twinVars>>

GaussStep(gain) ==
    /\ gnops < MaxOps
    /\ ~gpanicked
    /\ gop' = "step"
    /\ garg' = gain
    /\ gpre' = gpipe
    /\ gnops' = gnops + 1
    /\ IF G_step_panics(gpipe, gain)
       THEN gpanicked' = TRUE /\ gpipe' = gpipe
       ELSE gpanicked' = FALSE /\ gpipe' = G_step(gpipe, gain)
    /\ UNCHANGED <<pipeVars, testVars, paramVars, fsmVars, projVars, twinVars>>

GaussCull(remove_percent) ==
    /\ gnops < MaxOps
    /\ ~gpanicked
    /\ gop' = "cull_pop"
    /\ garg' = remove_percent
    /\ gpre' = gpipe
    /\ gnops' = gnops + 1
    /\ gpanicked' = FALSE
    /\ gpipe' = G_cull_pop(gpipe, remove_percent)
    /\ UNCHANGED <<pipeVars, testVars, paramVars, fsmVars, projVars, twinVars>>

(***************************************************************************)
(* do_simple_state_pipe_test(pipe_name, pipe): t_pc is the position in the *)
(* test ("failed" after an assertion that does not hold, "panicked" after  *)
(* a pipe call that panics), t_iter the pass of the outer loop and t_i the *)
(* pass of the inner one.  The test adds SIMPLE_TEST_PERIOD_INCR to the    *)
(* period and inserts SIMPLE_TEST_AMOUNT; here any increment up to         *)
(* SIMPLE_TEST_PERIOD_INCR and any amount of PulseAmounts.                 *)
(***************************************************************************)
SIMPLE_TEST_PERIOD_INCR == 5

SIMPLE_TEST_AMOUNT == 10

SIMPLE_TEST_ITER == 10

PulseAmounts ==
    (1..MaxGain) \cup {SIMPLE_TEST_AMOUNT}

TestInit(kind) ==
    /\ t_pipe = NewPipe(kind)
    /\ t_pc = "set_period"
    /\ t_period = 0
    /\ t_amount = 0
    /\ t_iter = 0
    /\ t_i = 0

\* period += SIMPLE_TEST_PERIOD_INCR; pipe.set_period(period)
TestSetPeriod(incr) ==
    /\ t_pc = "set_period"
    /\ t_period' = t_period + incr
    /\ IF SP_set_period_panics(t_pipe, t_period + incr)
       THEN t_pc' = "panicked" /\ t_pipe' = t_pipe
       ELSE t_pc' = "step" /\ t_pipe' = SP_set_period(t_pipe, t_period + incr)
    /\ UNCHANGED <<t_amount, t_iter, t_i>>
    /\ UNCHANGED <<pipeVars, gaussVars, paramVars, fsmVars, projVars, twinVars>>

\* pipe.step(SIMPLE_TEST_AMOUNT)
TestStepAmount(amount) ==
    /\ t_pc = "step"
    /\ t_amount' = amount
    /\ t_i' = 0
    /\ IF SP_step_panics(t_pipe, amount)
       THEN t_pc' = "panicked" /\ t_pipe' = t_pipe
       ELSE t_pc' = "loop" /\ t_pipe' = SP_step(t_pipe, amount)
    /\ UNCHANGED <<t_period, t_iter>>
    /\ UNCHANGED <<pipeVars, gaussVars, paramVars, fsmVars, projVars, twinVars>>

\* One pass of for i in 0..(period - 1), given the pipe after pipe.step(0):
\* the assertion pipe.pop() == SIMPLE_TEST_AMOUNT
TestLoopTo(next) ==
    /\ t_pipe' = next
    /\ IF SP_pop(next) # t_amount
       THEN t_pc' = "failed" /\ t_i' = t_i
       ELSE t_pc' = "loop" /\ t_i' = t_i + 1

\* One pass of for i in 0..(period - 1): the assertion pipe.loss() == 0,
\* pipe.step(0), the assertion pipe.pop() == SIMPLE_TEST_AMOUNT
TestLoopBody ==
    /\ t_pc = "loop"
    /\ t_i < t_period - 1
    /\ IF SP_loss(t_pipe) # 0
       THEN t_pc' = "failed" /\ t_pipe' = t_pipe /\ t_i' = t_i
       ELSE IF SP_step_panics(t_pipe, 0)
       THEN t_pc' = "panicked" /\ t_pipe' = t_pipe /\ t_i' = t_i
       ELSE TestLoopTo(SP_step(t_pipe, 0))
    /\ UNCHANGED <<t_period, t_amount, t_iter>>
    /\ UNCHANGED <<pipeVars, gaussVars, paramVars, fsmVars, projVars, twinVars>>

\* The end of a pass of the outer loop, given the pipe after pipe.step(0):
\* the assertion pipe.pop() == 0
TestDrainTo(next) ==
    /\ t_pipe' = next
    /\ IF SP_pop(next) # 0
       THEN t_pc' = "failed" /\ t_iter' = t_iter
       ELSE /\ t_iter' = t_iter + 1
            /\ t_pc' = IF t_iter + 1 < SIMPLE_TEST_ITER
                       THEN "set_period" ELSE "done"

\* After the inner loop: the assertion pipe.loss() == SIMPLE_TEST_AMOUNT,
\* pipe.step(0), the assertion pipe.pop() == 0
TestDrain ==
    /\ t_pc = "loop"
    /\ t_i = t_period - 1
    /\ IF SP_loss(t_pipe) # t_amount
       THEN t_pc' = "failed" /\ t_pipe' = t_pipe /\ t_iter' = t_iter
       ELSE IF SP_step_panics(t_pipe, 0)
       THEN t_pc' = "panicked" /\ t_pipe' = t_pipe /\ t_iter' = t_iter
       ELSE TestDrainTo(SP_step(t_pipe, 0))
    /\ UNCHANGED <<t_period, t_amount, t_i>>
    /\ UNCHANGED <<pipeVars, gaussVars, paramVars, fsmVars, projVars, twinVars>>

(***************************************************************************)
(* A parameter vector read with uint_param.  p_op and p_type record the    *)
(* last call and the parameter it named; p_result is what uint_param did:  *)
(* panicked, or the value returned.                                        *)
(***************************************************************************)
ParamInit ==
    /\ p_columns = DefaultColumns
    /\ p_op = "default"
    /\ p_type = 0
    /\ p_result = [panicked |-> FALSE, value |-> 0]

\* SpecificParameterVector::from_raw(columns), columns differing from the
\* default in one column
ParamFromRaw(param_type, value) ==
    /\ p_columns' = from_raw([DefaultColumns EXCEPT ![param_type + 1] = value])
    /\ p_op' = "from_raw"
    /\ p_type' = param_type
    /\ p_result' = [panicked |-> FALSE, value |-> 0]
    /\ UNCHANGED <<pipeVars, gaussVars, testVars, fsmVars, projVars, twinVars>>

\* uint_param(param_type)
ParamUint(param_type) ==
    /\ p_op # "uint_param"
    /\ p_columns' = p_columns
    /\ p_op' = "uint_param"
    /\ p_type' = param_type
    /\ p_result' =
        IF uint_param_panics(p_columns, param_type)
        THEN [panicked |-> TRUE, value |-> 0]
        ELSE [panicked |-> FALSE, value |-> uint_param(p_columns, param_type)]
    /\ UNCHANGED <<pipeVars, gaussVars, testVars, fsmVars, projVars, twinVars>>

(***************************************************************************)
(* One machine, seeded and stepped.  f_op is the last call; f_tick is the  *)
(* last step: the machine it was applied to (pre), its parameter vector,   *)
(* and what it computed (upd, s, f, culled as in fsm_step).  f_admitted is *)
(* the total gain of the immature-seed pipe and f_removed the total        *)
(* dropped from the snag pipe.  f_inserted is the number of seeds inserted *)
(* since the last step, and f_tick.inserted what it was when the last step *)
(* began.                                                                  *)
(* f_hist has one entry for the insertion and one for each step since: the *)
(* gain of the immature-seed pipe (sown), the matured and dead plants of   *)
(* the snapshot, the bucket dropped from the snag pipe (removed), the gain  *)
(* of the immature-plant pipe (germinated) and the bucket dropped from the *)
(* mature-seed pipe (seeds_dropped, 0 when the pipe is not stepped).       *)
(***************************************************************************)
FsmInit ==
    /\ fsm = NewMachine
    /\ f_op = "new"
    /\ f_tick = [pre |-> NewMachine, columns |-> DefaultColumns,
                 upd |-> NewMachine, s |-> NoSnapshot, f |-> F32_ZERO(0),
                 culled |-> NewMachine, inserted |-> 0]
    /\ f_admitted = 0
    /\ f_inserted = 0
    /\ f_hist = <<>>
    /\ f_removed = 0
    /\ f_panicked = FALSE
    /\ f_ticks = 0

\* Seeds inserted into the immature-seed pipe of an idle machine:
\* immature_seeds.step(seeds)
FsmSeed(seeds) ==
    /\ f_op = "new"
    /\ fsm' = [fsm EXCEPT !.immature_seeds = GT_step(@, seeds)]
    /\ f_op' = "seed"
    /\ f_admitted' = f_admitted + seeds
    /\ f_inserted' = f_inserted + seeds
    /\ f_hist' = Append(f_hist, [sown |-> seeds, matured_plants |-> 0,
                                  dead_plants |-> 0, removed |-> 0,
                                  germinated |-> 0, seeds_dropped |-> 0])
    /\ UNCHANGED <<f_tick, f_removed, f_panicked, f_ticks>>
    /\ UNCHANGED <<pipeVars, gaussVars, testVars, paramVars, projVars, twinVars>>

\* step(param_vec), r its result
FsmStepTo(columns, r) ==
    /\ fsm' = r.m
    /\ f_op' = "step"
    /\ f_tick' = [pre |-> fsm, columns |-> columns, upd |-> r.upd, s |-> r.s,
                  f |-> r.f, culled |-> r.culled, inserted |-> f_inserted]
    /\ f_inserted' = 0
    /\ f_hist' = Append(f_hist, [sown |-> r.s.total_seeds_dispersed,
                                  matured_plants |-> r.s.matured_plants,
                                  dead_plants |-> r.s.dead_plants,
                                  removed |-> r.removed,
                                  germinated |-> r.s.germinated_seeds,
                                  seeds_dropped |->
                                      mature_seeds_dropped(r.upd, columns)])
    /\ f_admitted' = f_admitted + r.s.total_seeds_dispersed
    /\ f_removed' = f_removed + r.removed
    /\ f_panicked' = r.panicked
    /\ f_ticks' = f_ticks + 1

\* step(param_vec)
FsmStep(columns) ==
    /\ f_ticks < MaxTicks
    /\ ~f_panicked
    /\ FsmStepTo(columns, fsm_step(fsm, columns))
    /\ UNCHANGED <<pipeVars, gaussVars, testVars, paramVars, projVars, twinVars>>

(***************************************************************************)
(* A parameter matrix projected on a resource vector.  q_rows and          *)
(* q_resources are the operands of the last product and q_result the       *)
(* columns of the parameter vector it returned.                            *)
(***************************************************************************)
ProjInit ==
    /\ q_rows = DefaultMatrix
    /\ q_resources = DefaultResources
    /\ q_result = DefaultColumns
    /\ q_op = "default"

\* matrix * resources, once, for a matrix whose row param has the given
\* weights and, by set_offset, the given offset (the default matrix among
\* them: zero weights and offset 1.0)
ProjMul(param, weights, offset, resources, zero) ==
    /\ q_op = "default"
    /\ q_rows' = set_offset([DefaultMatrix EXCEPT ![param + 1] =
                                weights \o <<F32_ONE>>], param, offset)
    /\ q_resources' = resources
    /\ q_result' = mul(q_rows', resources, zero)
    /\ q_op' = "mul"
    /\ UNCHANGED <<pipeVars, gaussVars, testVars, paramVars, fsmVars, twinVars>>

(***************************************************************************)
(* Two machines, tw_a and tw_b, started in the same state and stepped with *)
(* the same parameter vectors.  tw_op is the last call, "panicked" once a  *)
(* step of either has panicked.                                            *)
(***************************************************************************)
TwinInit ==
    /\ tw_a = NewMachine
    /\ tw_b = NewMachine
    /\ tw_op = "new"
    /\ tw_ticks = 0

\* The same seeds inserted into both machines: immature_seeds.step(seeds)
TwinSeed(seeds) ==
    /\ tw_op = "new"
    /\ tw_a' = [tw_a EXCEPT !.immature_seeds = GT_step(@, seeds)]
    /\ tw_b' = [tw_b EXCEPT !.immature_seeds = GT_step(@, seeds)]
    /\ tw_op' = "seed"
    /\ UNCHANGED tw_ticks
    /\ UNCHANGED <<pipeVars, gaussVars, testVars, paramVars, fsmVars, projVars>>

\* (mutant: the second machine may be left as it was after the culls)
TwinStepEither(ra, rb) ==
    /\ tw_a' = ra.m
    /\ tw_b' \in {rb.m, rb.culled}
    /\ tw_op' = IF ra.panicked \/ rb.panicked THEN "panicked" ELSE "step"
    /\ tw_ticks' = tw_ticks + 1

\* step(param_vec) of both machines, ra and rb their results
TwinStepTo(ra, rb) ==
    /\ tw_a' = ra.m
    /\ tw_b' = rb.m
    /\ tw_op' = IF ra.panicked \/ rb.panicked THEN "panicked" ELSE "step"
    /\ tw_ticks' = tw_ticks + 1

\* step(param_vec) of both machines
TwinStep(columns) ==
    /\ tw_ticks < MaxTicks
    /\ tw_op # "panicked"
    /\ TwinStepTo(fsm_step(tw_a, columns), fsm_step(tw_b, columns))
    /\ UNCHANGED <<pipeVars, gaussVars, testVars, paramVars, fsmVars, projVars>>

\* step(param_vec) of the end-to-end run
E2EStep ==
    /\ f_op # "new"
    /\ f_ticks < E2ESteps
    /\ ~f_panicked
    /\ FsmStepTo(E2EColumns, fsm_step(fsm, E2EColumns))
    /\ UNCHANGED <<pipeVars, gaussVars, testVars, paramVars, projVars, twinVars>>

Init ==
    /\ PipeInit
    /\ GaussInit
    /\ TestInit("GroundTruthStatePipe")
    /\ ParamInit
    /\ FsmInit
    /\ ProjInit
    /\ TwinInit

InitTest ==
    /\ PipeInit
    /\ GaussInit
    /\ \E kind \in PipeKinds : TestInit(kind)
    /\ ParamInit
    /\ FsmInit
    /\ ProjInit
    /\ TwinInit

PipeNext ==
    \/ \E period \in Periods : PipeSetPeriod(period)
    \/ \E gain \in Gains : PipeStep(gain)
    \/ \E f \in Fractions : PipeCull(f)

\* The exact pipe with buckets above 2^24, where `as f32` rounds
PipeLargeNext ==
    \/ \E period \in 1..2 : PipeSetPeriod(period)
    \/ \E gain \in {0, 2^24 + 3} : PipeStep(gain)
    \/ \E f \in {F32_ZERO(0), f32_lit(1, 2), F32_ONE} : PipeCull(f)

GaussNext ==
    \/ \E period \in Periods : GaussSetPeriod(period)
    \/ \E gain \in Gains : GaussStep(gain)
    \/ \E f \in Fractions : GaussCull(f)

\* The approximate pipe with one period, steps that gain nothing or
\* MaxGain, and culls of a half
GaussStepNext ==
    \/ GaussSetPeriod(MaxPeriod)
    \/ \E gain \in {0, MaxGain} : GaussStep(gain)
    \/ GaussCull(f32_lit(1, 2))

SpecGaussStep ==
    Init /\ [][GaussStepNext]_vars

TestNext ==
    \/ \E incr \in 1..SIMPLE_TEST_PERIOD_INCR : TestSetPeriod(incr)
    \/ \E amount \in PulseAmounts : TestStepAmount(amount)
    \/ TestLoopBody
    \/ TestDrain

ParamNext ==
    \/ \E param_type \in 0..(TotalParams - 1), value \in ParamValues :
        ParamFromRaw(param_type, value)
    \/ \E param_type \in 0..TotalParams : ParamUint(param_type)

FsmNext ==
    \/ \E seeds \in 1..MaxSeeds : FsmSeed(seeds)
    \/ \E columns \in FsmParamVectors : FsmStep(columns)

ProjNext ==
    \E param \in {SeedMaturationPeriod, SnagDecompositionPeriod},
       weights \in ProjWeightRows, offset \in ProjOffsets,
       resources \in ProjResources, sign \in 0..1 :
        ProjMul(param, weights, offset, resources, F32_ZERO(sign))

SpecPipe ==
    Init /\ [][PipeNext]_vars

SpecPipeLarge ==
    Init /\ [][PipeLargeNext]_vars

SpecGauss ==
    Init /\ [][GaussNext]_vars

SpecTest ==
    InitTest /\ [][TestNext]_vars

SpecParam ==
    Init /\ [][ParamNext]_vars

SpecFsm ==
    Init /\ [][FsmNext]_vars

FsmIdleNext ==
    \E columns \in FsmParamVectors : FsmStep(columns)

SpecFsmIdle ==
    Init /\ [][FsmIdleNext]_vars

FsmCondNext ==
    \/ \E seeds \in 1..MaxSeeds : FsmSeed(seeds)
    \/ \E columns \in FsmCondVectors : FsmStep(columns)

SpecFsmCond ==
    Init /\ [][FsmCondNext]_vars

FsmNegNext ==
    \/ \E seeds \in 1..MaxSeeds : FsmSeed(seeds)
    \/ \E columns \in FsmNegVectors : FsmStep(columns)

SpecFsmNeg ==
    Init /\ [][FsmNegNext]_vars

\* The machine with a cohort above 2^24, where `as f32` rounds
FsmLargeNext ==
    \/ \E seeds \in {1, 2^24 + 3} : FsmSeed(seeds)
    \/ \E columns \in FsmZeroVectors : FsmStep(columns)

SpecFsmLarge ==
    Init /\ [][FsmLargeNext]_vars

FsmZeroNext ==
    \/ \E seeds \in 1..MaxSeeds : FsmSeed(seeds)
    \/ \E columns \in FsmZeroVectors : FsmStep(columns)

SpecFsmZero ==
    Init /\ [][FsmZeroNext]_vars

TwinNext ==
    \/ \E seeds \in 1..MaxSeeds : TwinSeed(seeds)
    \/ \E columns \in FsmZeroVectors : TwinStep(columns)

SpecTwin ==
    Init /\ [][TwinNext]_vars

E2ENext ==
    \/ FsmSeed(E2ESeeds)
    \/ E2EStep

SpecE2E ==
    Init /\ [][E2ENext]_vars

SpecProj ==
    Init /\ [][ProjNext]_vars

\* C1: with a fixed period K, starting empty, after any steps pop() is the
\* sum of the gains minus the sum of the loss() values read before each step.
C1_Conservation ==
    fixedK > 0 => GT_pop(age_list) = SumSeq(gains) - SumSeq(losses)

C1_Witness ==
    /\ fixedK >= 2
    /\ Len(gains) > fixedK
    /\ SumSeq(losses) > 0
    /\ GT_pop(age_list) > 0

\* The pulse test of the pipe of a kind: no assertion fails and no call
\* panics; through the inner loop pop() is the amount inserted and loss()
\* is 0, after it loss() is the amount, and the pipe is empty between two
\* passes of the outer loop.
PulseHolds(kind) ==
    t_pipe.kind = kind =>
        /\ t_pc \notin {"failed", "panicked"}
        /\ t_pc = "loop" =>
            /\ SP_pop(t_pipe) = t_amount
            /\ SP_loss(t_pipe) = IF t_i < t_period - 1 THEN 0 ELSE t_amount
        /\ t_pc \in {"set_period", "done"} => SP_pop(t_pipe) = 0

\* The pulse of a later pass (a strictly larger period) is at its exit.
PulseReused(kind) ==
    /\ t_pipe.kind = kind
    /\ t_iter >= 2
    /\ t_pc = "loop"
    /\ t_period >= 3
    /\ t_i = t_period - 1
    /\ SP_loss(t_pipe) = t_amount
    /\ t_amount > 0

\* C2: an amount A stepped into an empty exact pipe of period P keeps
\* pop() = A and loss() = 0 through the next P - 1 ticks, is the loss() of
\* the tick after, and leaves pop() = 0 once that tick is stepped; and the
\* same on reusing the drained pipe with a strictly larger period.
C2_PulseExact ==
    PulseHolds("GroundTruthStatePipe")

C2_Witness ==
    PulseReused("GroundTruthStatePipe")

\* C3: in every reachable state of the exact pipe in which loss() can be
\* read, loss() <= pop(), and pop() >= 0.
C3_LossAtMostPop ==
    /\ GT_pop(age_list) >= 0
    /\ age_list # <<>> => GT_loss(age_list) <= GT_pop(age_list)

C3_Witness ==
    /\ op = "cull_pop"
    /\ GT_pop(age_list) < GT_pop(pre)
    /\ 0 < GT_loss(age_list)
    /\ GT_loss(age_list) < GT_pop(age_list)

\* C4: pop() right after set_period(p) equals pop() right before it, for a
\* p below, at or above the current length.
C4_ResizeKeepsPop ==
    (op = "set_period" /\ ~panicked) => GT_pop(age_list) = GT_pop(pre)

C4_Witness ==
    /\ op = "set_period"
    /\ ~panicked
    /\ Len(age_list) < Len(pre)
    /\ SumSeq(SubSeq(pre, 1, Len(pre) - Len(age_list))) > 0
    /\ GT_pop(age_list) > SumSeq(SubSeq(pre, 1, Len(pre) - Len(age_list)))

\* C5: as long as no step has panicked, the population of the stages
\* (immature seeds, mature seeds, dormant seeds, immature plants, mature
\* plants, snags) is the total admitted to the immature-seed pipe minus the
\* total dropped from the snag pipe.
C5_LifeCycleConserved ==
    ~f_panicked => StagePop(fsm) = f_admitted - f_removed

\* C6: a step taken with no mature plant leaves the four flowering-cycle
\* pipes and the ready-to-flower counter as they were before its culls.
C6_ZeroMatureNoCull ==
    (f_op = "step" /\ ~f_panicked /\ GT_pop(f_tick.upd.mature_plants) = 0) =>
        /\ f_tick.culled.flowering_plants = f_tick.upd.flowering_plants
        /\ f_tick.culled.dispersing_plants = f_tick.upd.dispersing_plants
        /\ f_tick.culled.flower_recovering_plants =
               f_tick.upd.flower_recovering_plants
        /\ f_tick.culled.disperse_recovering_plants =
               f_tick.upd.disperse_recovering_plants
        /\ f_tick.culled.ready_to_flower_plants =
               f_tick.upd.ready_to_flower_plants

C8_GaussLossClamped ==
    G_loss(gpipe) <= G_pop(gpipe)

\* C9: the pulse test holds on the approximate pipe as on the exact one.
C9_PulseGauss ==
    PulseHolds("GaussianStatePipe")

C9_Witness ==
    PulseReused("GaussianStatePipe")

\* The gains are a gains of g followed by b gains of 0.
ConstantThenZero(gs, g, a, b) ==
    /\ Len(gs) = a + b
    /\ \A i \in 1..Len(gs) : gs[i] = IF i <= a THEN g ELSE 0

\* C10: with a fixed period K, starting empty, the loss() read before step
\* n is the gain of step n - K, and 0 for n <= K.  So under a constant gain
\* g pop() grows by g a tick for K ticks with no loss, then loss() = g and
\* pop() = K * g; and once the gains stop loss() = g for K more ticks,
\* until pop() = 0 and loss() = 0.
C10_DelayLine ==
    fixedK > 0 =>
        /\ \A n \in 1..Len(losses) :
            losses[n] = IF n > fixedK THEN gains[n - fixedK] ELSE 0
        /\ GT_loss(age_list) =
            IF Len(gains) >= fixedK THEN gains[Len(gains) + 1 - fixedK] ELSE 0
        /\ \A g \in Gains, a \in 0..MaxOps, b \in 0..MaxOps :
            ConstantThenZero(gains, g, a, b) =>
                IF a < fixedK /\ b = 0 THEN
                    GT_pop(age_list) = a * g /\ GT_loss(age_list) = 0
                ELSE IF b = 0 THEN
                    GT_pop(age_list) = fixedK * g /\ GT_loss(age_list) = g
                ELSE IF a >= fixedK /\ b < fixedK THEN
                    /\ GT_pop(age_list) = (fixedK - b) * g
                    /\ GT_loss(age_list) = g
                ELSE a >= fixedK =>
                    GT_pop(age_list) = 0 /\ GT_loss(age_list) = 0

C10_Witness ==
    /\ fixedK = 2
    /\ \E g \in Gains \ {0} : ConstantThenZero(gains, g, 3, 2)
    /\ losses[3] > 0

\* C19: set_period(p) with 1 <= p < L on an exact pipe of length L leaves
\* p buckets: loss() is the sum of the L - p + 1 oldest buckets it had, and
\* the p - 1 younger buckets keep their counts and order.
C19_ShrinkMerges ==
    (op = "set_period" /\ ~panicked /\ 1 <= arg /\ arg < Len(pre)) =>
        /\ Len(age_list) = arg
        /\ GT_loss(age_list) = SumSeq(SubSeq(pre, 1, Len(pre) - arg + 1))
        /\ \A i \in 2..arg : age_list[i] = pre[Len(pre) - arg + i]

C19_Witness ==
    /\ op = "set_period"
    /\ ~panicked
    /\ arg = 2
    /\ Len(pre) > 2
    /\ SumSeq(SubSeq(pre, 1, Len(pre) - 2)) > 0
    /\ pre[Len(pre) - 1] > 0
    /\ age_list[2] > 0
    /\ age_list[2] # age_list[1]

\* The pipe after n calls of step(0).
RECURSIVE StepZero(_, _)
StepZero(al, n) ==
    IF n = 0 THEN al ELSE StepZero(GT_step(al, 0), n - 1)

\* C20: set_period(P) with P > L on an exact pipe of length L leaves P
\* buckets: the L it had keep their counts and order behind P - L buckets of
\* 0, loss() is 0, and the bucket that was the loss() after i calls of
\* step(0) is now the loss() after i + (P - L) calls.
C20_GrowKeeps ==
    (op = "set_period" /\ ~panicked /\ arg > Len(pre)) =>
        /\ Len(age_list) = arg
        /\ GT_loss(age_list) = 0
        /\ \A j \in 1..Len(pre) : age_list[j + arg - Len(pre)] = pre[j]
        /\ \A i \in 0..(Len(pre) - 1) :
            /\ GT_loss(StepZero(pre, i)) = pre[i + 1]
            /\ GT_loss(StepZero(age_list, i + arg - Len(pre))) = pre[i + 1]

C20_Witness ==
    /\ op = "set_period"
    /\ ~panicked
    /\ Len(pre) >= 2
    /\ arg > Len(pre)
    /\ pre[1] > 0
    /\ pre[2] > 0
    /\ pre[1] # pre[2]

\* C14: in every reachable state of the approximate pipe with pop = 0, the
\* mean age and the age variance are 0.
C14_ZeroPopZeroMoments ==
    G_pop(gpipe) = 0 => f32_is_zero(gpipe.age_avg) /\ f32_is_zero(gpipe.age_var)

\* The integer k * x of a finite float x that is a multiple of 1/k
Scaled(x, k) ==
    IF x.m = 0 THEN 0
    ELSE (IF x.s = 1 THEN -1 ELSE 1) * ((k * x.m) \div (2 ^ (0 - x.e)))

\* x is finite and k * x is an integer
IsScaled(x, k) ==
    /\ x.c = "fin"
    /\ x.m = 0 \/ (x.e <= 0 /\ (k * x.m) % (2 ^ (0 - x.e)) = 0)

\* Four times the sum of row[i] * columns[i] over the first n columns, in
\* integer arithmetic on the halves of the entries
RECURSIVE QuarterSum(_, _, _)
QuarterSum(row, columns, n) ==
    IF n = 0 THEN 0
    ELSE QuarterSum(row, columns, n - 1)
         + Scaled(row[n], 2) * Scaled(columns[n], 2)

\* C17: the product of a parameter matrix and a resource vector has, in each
\* of the 14 rows, the sum over the NUM_RESOURCES resources of weight times
\* resource plus the row's offset times the vector's trailing entry, which is
\* 1.0; the product of the default matrix is 1.0 in every row.
C17_Projection ==
    q_op = "mul" =>
        /\ Len(q_result) = TotalParams
        /\ q_resources[NUM_RESOURCES + 1] = F32_ONE
        /\ \A p \in 1..TotalParams :
            /\ IsScaled(q_result[p], 4)
            /\ Scaled(q_result[p], 4) =
                   QuarterSum(q_rows[p], q_resources, NUM_RESOURCES)
                   + Scaled(q_rows[p][NUM_RESOURCES + 1], 2) * 2
        /\ q_rows = DefaultMatrix =>
               \A p \in 1..TotalParams : q_result[p] = F32_ONE

C17_Witness ==
    /\ q_op = "mul"
    /\ \E p \in 1..TotalParams :
        /\ QuarterSum(q_rows[p], q_resources, NUM_RESOURCES) \notin {0, 4}
        /\ Scaled(q_rows[p][NUM_RESOURCES + 1], 2) = -2
        /\ q_result[p] # q_rows[p][NUM_RESOURCES + 1]
        /\ ~f32_is_zero(q_result[p])
    /\ \E p \in 1..TotalParams :
        q_rows[p] = DefaultMatrix[p] /\ q_result[p] = F32_ONE

\* C18: the gain the immature-seed pipe is stepped with in a tick is
\* trunc(dispersing population of the snapshot * dispersal rate) plus the
\* seeds inserted since the previous tick, and no inserted seed is left
\* pending after the step.
C18_SeedGain ==
    (f_op = "step" /\ ~f_panicked) =>
        /\ fsm.immature_seeds[Len(fsm.immature_seeds)] =
               f32_as_u32(f32_mul(
                   u32_as_f32(GT_pop(f_tick.upd.dispersing_plants)),
                   float_param(f_tick.columns, DispersionRate)))
               + f_tick.inserted
        /\ f_inserted = 0

\* C11: in a step that returns, the eight values of the snapshot and the
\* mature population of the mortality fraction are read from the machine as
\* update_states has left it (periods re-derived, nothing culled or stepped),
\* the four culls and the cull of the ready-to-flower counter are applied to
\* that machine, and every culled pipe is stepped only after its cull.
C11_SnapshotOrder ==
    (f_op = "step" /\ ~f_panicked) =>
        /\ f_tick.upd = update_states(f_tick.pre, f_tick.columns).m
        /\ f_tick.s.matured_seeds = GT_loss(f_tick.upd.immature_seeds)
        /\ f_tick.s.germinated_seeds = GT_loss(f_tick.upd.mature_seeds)
        /\ f_tick.s.matured_plants = GT_loss(f_tick.upd.immature_plants)
        /\ f_tick.s.dead_plants = GT_loss(f_tick.upd.mature_plants)
        /\ f_tick.s.flowered_plants = GT_loss(f_tick.upd.flowering_plants)
        /\ f_tick.s.dispersed_plants = GT_loss(f_tick.upd.dispersing_plants)
        /\ f_tick.s.recovered_plants =
               GT_loss(f_tick.upd.flower_recovering_plants)
               + GT_loss(f_tick.upd.disperse_recovering_plants)
        /\ f_tick.s.total_seeds_dispersed =
               f32_as_u32(f32_mul(
                   u32_as_f32(GT_pop(f_tick.upd.dispersing_plants)),
                   float_param(f_tick.columns, DispersionRate)))
        /\ f_tick.f = f32_div(u32_as_f32(f_tick.s.dead_plants),
                              u32_as_f32(GT_pop(f_tick.upd.mature_plants)))
        /\ f_tick.culled.flowering_plants =
               GT_cull_pop(f_tick.upd.flowering_plants, f_tick.f)
        /\ f_tick.culled.ready_to_flower_plants =
               cull_count(f_tick.upd.ready_to_flower_plants, f_tick.f)
        /\ fsm.dispersing_plants =
               GT_step(GT_cull_pop(f_tick.upd.dispersing_plants, f_tick.f),
                       flower_success_pop(f_tick.columns, f_tick.s))
        /\ fsm.flower_recovering_plants =
               GT_step(GT_cull_pop(f_tick.upd.flower_recovering_plants,
                                   f_tick.f),
                       f_tick.s.flowered_plants
                           - flower_success_pop(f_tick.columns, f_tick.s))
        /\ fsm.disperse_recovering_plants =
               GT_step(GT_cull_pop(f_tick.upd.disperse_recovering_plants,
                                   f_tick.f),
                       f_tick.s.dispersed_plants)
        /\ fsm.flowering_plants \in
               {f_tick.culled.flowering_plants,
                GT_step(f_tick.culled.flowering_plants,
                        f_tick.culled.ready_to_flower_plants
                            + f_tick.s.matured_plants
                            + f_tick.s.recovered_plants)}

C11_Witness ==
    /\ f_op = "step"
    /\ ~f_panicked
    /\ Len(f_tick.pre.mature_plants) > Len(f_tick.upd.mature_plants)
    /\ f_tick.s.dead_plants # GT_loss(f_tick.pre.mature_plants)
    /\ f_tick.culled.flowering_plants # f_tick.upd.flowering_plants
    /\ fsm.flowering_plants = f_tick.culled.flowering_plants

\* Every pipe of m has population 0 and both counters are 0
AllZero(m) ==
    /\ \A k \in 1..Len(StatePeriods) : GT_pop(m[StatePeriods[k][1]]) = 0
    /\ m.dormant_seeds = 0
    /\ m.ready_to_flower_plants = 0

\* Parameter vectors with every period the same, 1 or more, and every rate
\* and every condition the same: among them negative, infinite and NaN
ExtinctionVectors ==
    {from_raw([i \in 1..TotalParams |->
         IF i - 1 \in {SeedGerminationConditions, FloweringConditions,
                       MinimumSurvivalConditions} THEN x[3]
         ELSE IF i - 1 \in {FloweringSuccessRatio, DispersionRate} THEN x[2]
         ELSE u32_as_f32(x[1])]) :
        x \in (1..MaxPeriod)
              \X {F32_ZERO(0), f32_lit(1, 2), u32_as_f32(3), f32_neg(F32_ONE),
                  F32_INF(0), F32_NAN}
              \X {f32_neg(F32_ONE), F32_ZERO(1), F32_ONE, F32_NAN}}

\* C13: a machine into which no seed was inserted has population 0 in every
\* pipe and both counters at 0 after any number of steps, and one more step
\* with periods of 1 or more and any rates and conditions returns and leaves
\* it so.
C13_ExtinctionAbsorbing ==
    f_admitted = 0 =>
        /\ ~f_panicked
        /\ AllZero(fsm)
        /\ \A columns \in ExtinctionVectors :
            /\ ~fsm_step(fsm, columns).panicked
            /\ AllZero(fsm_step(fsm, columns).m)

C13_Witness ==
    /\ f_admitted = 0
    /\ f_op = "step"
    /\ f_ticks >= 2
    /\ f_tick.f.c = "nan"
    /\ Len(f_tick.pre.mature_plants) # Len(fsm.mature_plants)
    /\ AllZero(f_tick.pre)
    /\ AllZero(fsm)

\* C15: after any step whose period parameters pass uint_param, every pipe
\* of the machine has a period of 1 or more (an age list with a bucket).
C15_PeriodAtLeastOne ==
    f_op = "step" =>
        \A k \in 1..Len(StatePeriods) : Len(fsm[StatePeriods[k][1]]) >= 1

CyclePop(m) ==
    GT_pop(m.flowering_plants) + GT_pop(m.flower_recovering_plants)
    + GT_pop(m.dispersing_plants) + GT_pop(m.disperse_recovering_plants)
    + m.ready_to_flower_plants

C21_LengthIsPeriod ==
    /\ (op = "set_period" /\ ~panicked /\ arg >= 1) => Len(age_list) = arg
    /\ (op \in {"step", "cull_pop"} /\ Len(pre) >= 1) =>
           Len(age_list) = Len(pre)

C21_Witness ==
    /\ op = "step"
    /\ arg > 0
    /\ Len(pre) >= 2
    /\ GT_pop(pre) > 0
    /\ Len(age_list) = Len(pre)
    /\ nops >= 3

\* C22: cull_pop(f) with 0 <= f <= 1 replaces every bucket b by
\* trunc(b * (1 - f)): the number and order of the buckets are kept, no
\* bucket and therefore not pop() grows, f = 0 leaves every bucket as it was
\* and f = 1 leaves every bucket 0.
C22_CullScales ==
    (op = "cull_pop" /\ f32_ge(arg, F32_ZERO(0)) /\ f32_ge(F32_ONE, arg)) =>
        /\ Len(age_list) = Len(pre)
        /\ \A i \in 1..Len(pre) :
            /\ age_list[i] = cull_count(pre[i], arg)
            /\ age_list[i] <= pre[i]
        /\ GT_pop(age_list) <= GT_pop(pre)
        /\ f32_is_zero(arg) => age_list = pre
        /\ arg = F32_ONE => \A i \in 1..Len(pre) : age_list[i] = 0

C24_Germination ==
    (f_op = "step" /\ ~f_panicked) =>
        IF f32_lt(float_param(f_tick.columns, SeedGerminationConditions),
                  F32_ZERO(0))
        THEN /\ fsm.dormant_seeds =
                    f_tick.pre.dormant_seeds
                    + GT_loss(f_tick.upd.immature_seeds)
             /\ fsm.mature_seeds = f_tick.upd.mature_seeds
        ELSE /\ fsm.mature_seeds =
                    GT_step(f_tick.upd.mature_seeds,
                            GT_loss(f_tick.upd.immature_seeds)
                                + f_tick.pre.dormant_seeds)
             /\ fsm.dormant_seeds = 0

C24_Witness ==
    /\ f_op = "step"
    /\ ~f_panicked
    /\ f32_ge(float_param(f_tick.columns, SeedGerminationConditions),
              F32_ZERO(0))
    /\ f_tick.pre.dormant_seeds > 0
    /\ fsm.dormant_seeds = 0
    /\ GT_pop(fsm.mature_seeds) = f_tick.pre.dormant_seeds
    /\ f_ticks >= 3

\* C25: a step whose flowering conditions are negative leaves the flowering
\* pipe as the mortality cull left it and the ready-to-flower counter at
\* its culled value plus the plants matured and recovered in this tick;
\* any other step steps the flowering pipe with that whole value and leaves
\* the counter at 0.
C25_Flowering ==
    (f_op = "step" /\ ~f_panicked) =>
        IF f32_lt(float_param(f_tick.columns, FloweringConditions),
                  F32_ZERO(0))
        THEN /\ fsm.flowering_plants = f_tick.culled.flowering_plants
             /\ fsm.ready_to_flower_plants =
                    f_tick.culled.ready_to_flower_plants
                    + f_tick.s.matured_plants + f_tick.s.recovered_plants
        ELSE /\ fsm.flowering_plants =
                    GT_step(f_tick.culled.flowering_plants,
                            f_tick.culled.ready_to_flower_plants
                                + f_tick.s.matured_plants
                                + f_tick.s.recovered_plants)
             /\ fsm.ready_to_flower_plants = 0

C25_Witness ==
    /\ f_op = "step"
    /\ ~f_panicked
    /\ f32_ge(float_param(f_tick.columns, FloweringConditions), F32_ZERO(0))
    /\ f_tick.culled.ready_to_flower_plants > 0
    /\ fsm.ready_to_flower_plants = 0
    /\ GT_pop(fsm.flowering_plants) >= f_tick.culled.ready_to_flower_plants
    /\ f_ticks >= 4

\* C26: in every step with a success ratio in [0, 1] the dispersing pipe
\* gains trunc(ratio * flowering loss of the snapshot), the flower-recovering
\* pipe gains the remainder, the two gains sum to that loss, and the
\* subtraction flowered_plants - flower_success_pop does not underflow.
C26_SuccessSplit ==
    (/\ f_op = "step"
     /\ f32_ge(float_param(f_tick.columns, FloweringSuccessRatio), F32_ZERO(0))
     /\ f32_ge(F32_ONE, float_param(f_tick.columns, FloweringSuccessRatio))) =>
        /\ ~step_flowering_panics(f_tick.columns, f_tick.s)
        /\ ~f_panicked =>
            /\ fsm.dispersing_plants[Len(fsm.dispersing_plants)] =
                   flower_success_pop(f_tick.columns, f_tick.s)
            /\ fsm.flower_recovering_plants[Len(fsm.flower_recovering_plants)] =
                   f_tick.s.flowered_plants
                   - flower_success_pop(f_tick.columns, f_tick.s)
            /\ fsm.dispersing_plants[Len(fsm.dispersing_plants)]
               + fsm.flower_recovering_plants[Len(fsm.flower_recovering_plants)]
                   = f_tick.s.flowered_plants

\* C27: after a step(gain) of the approximate pipe that returns, pop() is
\* the old pop() - the old loss() + gain; when the new pop is above 0 the
\* new mean age is (old pop - old loss) * (old mean + 1) / new pop; when
\* the new pop is 0 the mean age and the variance are both 0.
C27_GaussStep ==
    (gop = "step" /\ ~gpanicked) =>
        /\ G_pop(gpipe) = G_pop(gpre) - G_loss(gpre) + garg
        /\ gpipe.period = gpre.period
        /\ G_pop(gpipe) > 0 =>
               gpipe.age_avg =
                   f32_div(f32_mul(u32_as_f32(G_pop(gpre) - G_loss(gpre)),
                                   f32_add(gpre.age_avg, F32_ONE)),
                           u32_as_f32(G_pop(gpipe)))
        /\ G_pop(gpipe) = 0 =>
               f32_is_zero(gpipe.age_avg) /\ f32_is_zero(gpipe.age_var)

C27_Witness ==
    /\ gop = "step"
    /\ ~gpanicked
    /\ garg > 0
    /\ G_loss(gpre) > 0
    /\ G_pop(gpre) > G_loss(gpre)
    /\ ~f32_is_zero(gpipe.age_avg)
    /\ ~f32_is_zero(gpipe.age_var)

\* C28: every step steps the snag pipe with the mature-plant loss of the
\* snapshot, and in a run of exact pipes with a constant snag-decomposition
\* period D the bucket the snag pipe drops in tick t is the dead plants of
\* tick t - D (nothing in the first D ticks), while the dead plants of the
\* last D ticks are still in the pipe, oldest first.
C28_SnagDelay ==
    (f_op = "step" /\ ~f_panicked /\ Len(f_hist) = f_ticks + 1) =>
        /\ fsm.snags = GT_step(f_tick.upd.snags, f_tick.s.dead_plants)
        /\ Len(fsm.snags) = uint_param(f_tick.columns, SnagDecompositionPeriod)
        /\ \A t \in 1..f_ticks :
               f_hist[t + 1].removed =
                   IF t > Len(fsm.snags)
                   THEN f_hist[t + 1 - Len(fsm.snags)].dead_plants
                   ELSE 0
        /\ \A i \in 1..Len(fsm.snags) :
               fsm.snags[i] =
                   IF f_ticks + i > Len(fsm.snags)
                   THEN f_hist[f_ticks + i + 1 - Len(fsm.snags)].dead_plants
                   ELSE 0

C28_Witness ==
    /\ f_op = "step"
    /\ ~f_panicked
    /\ Len(f_hist) = f_ticks + 1
    /\ Len(fsm.snags) >= 2
    /\ f_hist[f_ticks + 1].removed > 0
    /\ f_hist[f_ticks + 1].dead_plants > 0
    /\ f_hist[f_ticks + 1].removed # f_hist[f_ticks + 1].dead_plants
    /\ f_hist[f_ticks].removed # f_hist[f_ticks + 1].removed

\* C29: in a run of exact pipes with constant periods and germination
\* conditions that are never negative, the plants that mature in tick t
\* (admitted to the mature-plant pipe and, through the ready-to-flower
\* counter, to the flowering pipe in that tick) are the seeds the
\* immature-seed pipe gained total_maturation_period() ticks earlier, the
\* insertion counting as tick 0; no plant matures before that many ticks.
C29_MaturationLatency ==
    (f_op = "step" /\ ~f_panicked /\ Len(f_hist) = f_ticks + 1) =>
        /\ \A t \in 1..f_ticks :
               f_hist[t + 1].matured_plants =
                   IF t >= total_maturation_period(f_tick.columns)
                   THEN f_hist[t + 1
                               - total_maturation_period(f_tick.columns)].sown
                   ELSE 0
        /\ fsm.mature_plants[Len(fsm.mature_plants)] = f_tick.s.matured_plants
        /\ IF f32_lt(float_param(f_tick.columns, FloweringConditions),
                     F32_ZERO(0))
           THEN fsm.ready_to_flower_plants =
                    f_tick.culled.ready_to_flower_plants
                    + f_tick.s.matured_plants + f_tick.s.recovered_plants
           ELSE fsm.flowering_plants[Len(fsm.flowering_plants)] =
                    f_tick.culled.ready_to_flower_plants
                    + f_tick.s.matured_plants + f_tick.s.recovered_plants

C29_Witness ==
    /\ f_op = "step"
    /\ ~f_panicked
    /\ f_ticks > 2 * total_maturation_period(f_tick.columns)
    /\ total_maturation_period(f_tick.columns) >= 3
    /\ f_tick.s.matured_plants > 0
    /\ f_tick.s.matured_plants # E2ESeeds
    /\ f_hist[f_ticks].matured_plants # f_tick.s.matured_plants

\* C30: in every step the plants admitted downstream of a culled pipe are
\* the plants that pipe's own step removes: the gains of the dispersing and
\* the flower-recovering pipe sum to the bucket dropped from the flowering
\* pipe (nothing when it is not stepped), and the gain of the
\* disperse-recovering pipe is the bucket dropped from the dispersing pipe.
C30_HandOver ==
    (f_op = "step" /\ ~f_panicked) =>
        /\ fsm.dispersing_plants[Len(fsm.dispersing_plants)]
           + fsm.flower_recovering_plants[Len(fsm.flower_recovering_plants)] =
               IF f32_lt(float_param(f_tick.columns, FloweringConditions),
                         F32_ZERO(0))
               THEN 0
               ELSE f_tick.culled.flowering_plants[1]
        /\ fsm.disperse_recovering_plants[Len(fsm.disperse_recovering_plants)] =
               f_tick.culled.dispersing_plants[1]

\* C31: over any run in which no step has panicked, the total number of
\* individuals admitted to the immature-plant pipe equals the total number
\* dropped from the mature-seed pipe, ticks with negative germination
\* conditions (in which the mature-seed pipe is not stepped) included.
C31_GerminatedOnce ==
    ~f_panicked =>
        SumSeq([i \in 1..Len(f_hist) |-> f_hist[i].germinated]) =
            SumSeq([i \in 1..Len(f_hist) |-> f_hist[i].seeds_dropped])

\* C32: in every state that a step of the machine of exact pipes has returned
\* to, the ready-to-flower counter plus the populations of the flowering,
\* flower-recovering, dispersing and disperse-recovering pipes is at most
\* the population of the mature-plant pipe.
C32_CycleWithinMature ==
    (f_op = "step" /\ ~f_panicked) =>
        CyclePop(fsm) <= GT_pop(fsm.mature_plants)

\* C33: after a step that has failed because one of the period parameters
\* is negative, the machine (every pipe and both counters) is as it was
\* before the step.
C33_FailedTickAtomic ==
    (/\ f_op = "step"
     /\ f_panicked
     /\ \E k \in 1..Len(StatePeriods) :
            f32_lt(f_tick.columns[StatePeriods[k][2] + 1], F32_ZERO(0))) =>
        fsm = f_tick.pre

====
